---- MODULE Spec2Model ----
(***************************************************************************)
(* A model of the AudioNormalize postprocessor plugin                      *)
(* (yt_dlp_plugins/postprocessor/audio_normalize.py): the parameter map    *)
(* derived from the normalizer's constructor annotations, the two          *)
(* configuration channels (kwargs and PPA argument list) with their        *)
(* coercions, and the file normalizer's temp-file protocol.                *)
(*                                                                         *)
(* Python strings are sequences of one-character strings, so that          *)
(* replace(), lower(), float() and int() are computed on the characters.   *)
(***************************************************************************)
EXTENDS Integers, Sequences, FiniteSets, TLC

(***************************************************************************)
(* Parameter names of FFmpegNormalize.__init__ that the plugin refers to.  *)
(***************************************************************************)
n_normalization_type == <<"n", "o", "r", "m", "a", "l", "i", "z", "a", "t", "i", "o", "n", "_", "t", "y", "p", "e">>
n_target_level == <<"t", "a", "r", "g", "e", "t", "_", "l", "e", "v", "e", "l">>
n_print_stats == <<"p", "r", "i", "n", "t", "_", "s", "t", "a", "t", "s">>
n_loudness_range_target == <<"l", "o", "u", "d", "n", "e", "s", "s", "_", "r", "a", "n", "g", "e", "_", "t", "a", "r", "g", "e", "t">>
n_true_peak == <<"t", "r", "u", "e", "_", "p", "e", "a", "k">>
n_audio_codec == <<"a", "u", "d", "i", "o", "_", "c", "o", "d", "e", "c">>
n_audio_bitrate == <<"a", "u", "d", "i", "o", "_", "b", "i", "t", "r", "a", "t", "e">>
n_sample_rate == <<"s", "a", "m", "p", "l", "e", "_", "r", "a", "t", "e">>
n_audio_channels == <<"a", "u", "d", "i", "o", "_", "c", "h", "a", "n", "n", "e", "l", "s">>
n_keep_original_audio == <<"k", "e", "e", "p", "_", "o", "r", "i", "g", "i", "n", "a", "l", "_", "a", "u", "d", "i", "o">>
n_pre_filter == <<"p", "r", "e", "_", "f", "i", "l", "t", "e", "r">>
n_post_filter == <<"p", "o", "s", "t", "_", "f", "i", "l", "t", "e", "r">>
n_video_disable == <<"v", "i", "d", "e", "o", "_", "d", "i", "s", "a", "b", "l", "e">>
n_video_codec == <<"v", "i", "d", "e", "o", "_", "c", "o", "d", "e", "c">>
n_subtitle_disable == <<"s", "u", "b", "t", "i", "t", "l", "e", "_", "d", "i", "s", "a", "b", "l", "e">>
n_metadata_disable == <<"m", "e", "t", "a", "d", "a", "t", "a", "_", "d", "i", "s", "a", "b", "l", "e">>
n_chapters_disable == <<"c", "h", "a", "p", "t", "e", "r", "s", "_", "d", "i", "s", "a", "b", "l", "e">>
n_output_format == <<"o", "u", "t", "p", "u", "t", "_", "f", "o", "r", "m", "a", "t">>
n_extension == <<"e", "x", "t", "e", "n", "s", "i", "o", "n">>
n_debug == <<"d", "e", "b", "u", "g">>
n_dry_run == <<"d", "r", "y", "_", "r", "u", "n">>
n_progress == <<"p", "r", "o", "g", "r", "e", "s", "s">>
n_dual_mono == <<"d", "u", "a", "l", "_", "m", "o", "n", "o">>
n_extra_input_options == <<"e", "x", "t", "r", "a", "_", "i", "n", "p", "u", "t", "_", "o", "p", "t", "i", "o", "n", "s">>
n_return == <<"r", "e", "t", "u", "r", "n">>

(***************************************************************************)
(* Python values.  A float is the exact decimal n * 10^(-e) in lowest      *)
(* form (no trailing zero in the fraction), so float("-14") and            *)
(* float("-14.0") are the same value.                                      *)
(***************************************************************************)
PyStr(s) == [s |-> s, t |-> "str", n |-> 0, e |-> 0, b |-> FALSE]

PyInt(i) == [s |-> <<>>, t |-> "int", n |-> i, e |-> 0, b |-> FALSE]

PyFloat(m, x) == [s |-> <<>>, t |-> "float", n |-> m, e |-> x, b |-> FALSE]

PyBool(v) == [s |-> <<>>, t |-> "bool", n |-> 0, e |-> 0, b |-> v]

PyNone == [s |-> <<>>, t |-> "NoneType", n |-> 0, e |-> 0, b |-> FALSE]

(***************************************************************************)
(* dict: a function from keys to values; update() lets the argument win.   *)
(***************************************************************************)
EmptyDict == [k \in {} |-> PyNone]

DictSet(d, k, v) == [x \in DOMAIN d \cup {k} |-> IF x = k THEN v ELSE d[x]]

DictUpdate(d, other) ==
    [x \in DOMAIN d \cup DOMAIN other |-> IF x \in DOMAIN other THEN other[x] ELSE d[x]]

(***************************************************************************)
(* str.replace(old, new) for one-character old and new; str.lower().       *)
(***************************************************************************)
StrReplace(s, old, new) == [i \in 1..Len(s) |-> IF s[i] = old THEN new ELSE s[i]]

UpperLetters ==
    <<"A", "B", "C", "D", "E", "F", "G", "H", "I", "J", "K", "L", "M",
      "N", "O", "P", "Q", "R", "S", "T", "U", "V", "W", "X", "Y", "Z">>

LowerLetters ==
    <<"a", "b", "c", "d", "e", "f", "g", "h", "i", "j", "k", "l", "m",
      "n", "o", "p", "q", "r", "s", "t", "u", "v", "w", "x", "y", "z">>

LowerChar(c) ==
    IF \E i \in 1..Len(UpperLetters) : UpperLetters[i] = c
    THEN LowerLetters[CHOOSE i \in 1..Len(UpperLetters) : UpperLetters[i] = c]
    ELSE c

\* StrLower leaving the string as it is
StrLowerSkipped(s) == s

StrLower(s) == [i \in 1..Len(s) |-> LowerChar(s[i])]

(***************************************************************************)
(* float(s) and int(s) on the decimal notation [sign]digits[.digits].      *)
(* Anything else raises ValueError (ok = FALSE).                           *)
(***************************************************************************)
Digits == <<"0", "1", "2", "3", "4", "5", "6", "7", "8", "9">>

IsDigit(c) == \E i \in 1..Len(Digits) : Digits[i] = c

DigitVal(c) == (CHOOSE i \in 1..Len(Digits) : Digits[i] = c) - 1

IsDigits(s) == \A i \in 1..Len(s) : IsDigit(s[i])

RECURSIVE DigitsValue(_)
DigitsValue(s) ==
    IF s = <<>> THEN 0
    ELSE DigitsValue(SubSeq(s, 1, Len(s) - 1)) * 10 + DigitVal(s[Len(s)])

RECURSIVE LowestForm(_, _)
LowestForm(m, x) ==
    IF x > 0 /\ m % 10 = 0 THEN LowestForm(m \div 10, x - 1) ELSE <<m, x>>

HasSign(s) == Len(s) > 0 /\ s[1] \in {"-", "+"}

Unsigned(s) == IF HasSign(s) THEN SubSeq(s, 2, Len(s)) ELSE s

Signed(s, v) == IF HasSign(s) /\ s[1] = "-" THEN 0 - v ELSE v

DotAt(u) == {i \in 1..Len(u) : u[i] = "."}

int(s) ==
    LET u == Unsigned(s)
    IN  IF Len(u) > 0 /\ IsDigits(u)
        THEN [ok |-> TRUE, val |-> PyInt(Signed(s, DigitsValue(u)))]
        ELSE [ok |-> FALSE, val |-> PyNone]

float(s) ==
    LET u == Unsigned(s)
        dots == DotAt(u)
    IN  IF Len(u) > 0 /\ IsDigits(u)
        THEN [ok |-> TRUE, val |-> PyFloat(Signed(s, DigitsValue(u)), 0)]
        ELSE IF Cardinality(dots) = 1
        THEN LET d == CHOOSE i \in dots : TRUE
                 whole == SubSeq(u, 1, d - 1)
                 frac == SubSeq(u, d + 1, Len(u))
                 low == LowestForm(DigitsValue(whole \o frac), Len(frac))
             IN  IF IsDigits(whole) /\ IsDigits(frac) /\ Len(whole) + Len(frac) > 0
                 THEN [ok |-> TRUE, val |-> PyFloat(Signed(s, low[1]), low[2])]
                 ELSE [ok |-> FALSE, val |-> PyNone]
        ELSE [ok |-> FALSE, val |-> PyNone]

\* Coerce that never fails: a string that is no number is kept as it is
CoerceKeepsRaw(typ, s) ==
    CASE typ = "float" /\ float(s).ok -> float(s)
      [] typ = "int" /\ int(s).ok -> int(s)
      [] OTHER -> [ok |-> TRUE, val |-> PyStr(s)]

\* typ(str_val) for the non-bool scalar types
Coerce(typ, s) ==
    CASE typ = "float" -> float(s)
      [] typ = "int" -> int(s)
      [] OTHER -> [ok |-> TRUE, val |-> PyStr(s)]

(***************************************************************************)
(* Type hints.  origin is get_origin(hint) ("" for None), cls the class    *)
(* when the hint is a plain class, lits the runtime types of a Literal's   *)
(* values, args the members of a union.  A union written X | Y has the     *)
(* origin types.UnionType; one written typing.Union[X, Y] or               *)
(* typing.Optional[X] has the origin typing.Union, which is another object *)
(* before Python 3.14 and the same object from 3.14 on (where TypingUnion  *)
(* hints do not exist and every union is a UnionType hint).                *)
(***************************************************************************)
Class(c) == [origin |-> "", cls |-> c, lits |-> <<>>, args |-> <<>>]

LiteralOf(ts) == [origin |-> "Literal", cls |-> "", lits |-> ts, args |-> <<>>]

ListOf(h) == [origin |-> "list", cls |-> "", lits |-> <<>>, args |-> <<h>>]

UnionType(hs) == [origin |-> "UnionType", cls |-> "", lits |-> <<>>, args |-> hs]

TypingUnion(hs) == [origin |-> "Union", cls |-> "", lits |-> <<>>, args |-> hs]

NoneTypeHint == Class("NoneType")

Optional(h) == UnionType(<<h, NoneTypeHint>>)

ScalarTypes == {"str", "float", "int", "bool"}

NotScalar == "None"

RECURSIVE _extract_scalar_type(_)
_extract_scalar_type(hint) ==
    IF hint.origin = "" /\ hint.cls \in ScalarTypes THEN hint.cls
    ELSE IF hint.origin = "Literal"
    THEN IF hint.lits = <<>> THEN "IndexError"    \* get_args(hint)[0] of Literal[()]
         ELSE IF hint.lits[1] \in ScalarTypes THEN hint.lits[1] ELSE "str"
    ELSE IF hint.origin = "list" THEN NotScalar
    ELSE IF hint.origin = "UnionType"
            /\ \E i \in 1..Len(hint.args) : hint.args[i] # NoneTypeHint
    THEN LET i == CHOOSE i \in 1..Len(hint.args) :
                      /\ hint.args[i] # NoneTypeHint
                      /\ \A j \in 1..(i - 1) : hint.args[j] = NoneTypeHint
         IN  _extract_scalar_type(hint.args[i])
    ELSE "str"

(***************************************************************************)
(* The class tables.                                                       *)
(***************************************************************************)
_SHORT_FLAGS ==
    << <<<<"-", "n", "t">>, n_normalization_type>>,
       <<<<"-", "t">>, n_target_level>>,
       <<<<"-", "p">>, n_print_stats>>,
       <<<<"-", "l", "r", "t">>, n_loudness_range_target>>,
       <<<<"-", "t", "p">>, n_true_peak>>,
       <<<<"-", "c", ":", "a">>, n_audio_codec>>,
       <<<<"-", "b", ":", "a">>, n_audio_bitrate>>,
       <<<<"-", "a", "r">>, n_sample_rate>>,
       <<<<"-", "a", "c">>, n_audio_channels>>,
       <<<<"-", "k", "o", "a">>, n_keep_original_audio>>,
       <<<<"-", "p", "r", "f">>, n_pre_filter>>,
       <<<<"-", "p", "o", "f">>, n_post_filter>>,
       <<<<"-", "v", "n">>, n_video_disable>>,
       <<<<"-", "c", ":", "v">>, n_video_codec>>,
       <<<<"-", "s", "n">>, n_subtitle_disable>>,
       <<<<"-", "m", "n">>, n_metadata_disable>>,
       <<<<"-", "c", "n">>, n_chapters_disable>>,
       <<<<"-", "o", "f", "m", "t">>, n_output_format>>,
       <<<<"-", "e", "x", "t">>, n_extension>>,
       <<<<"-", "d">>, n_debug>>,
       <<<<"-", "n">>, n_dry_run>>,
       <<<<"-", "p", "r">>, n_progress>> >>

_TYPE_OVERRIDES == << <<n_audio_bitrate, "str">> >>

(***************************************************************************)
(* get_type_hints(FFmpegNormalize.__init__): the annotations of the        *)
(* parameters the short flags name, of dual_mono, of one list parameter,   *)
(* and the return entry, in signature order.                               *)
(***************************************************************************)
FFmpegNormalizeHints ==
    << <<n_normalization_type, LiteralOf(<<"str", "str", "str">>)>>,
       <<n_target_level, Class("float")>>,
       <<n_print_stats, Class("bool")>>,
       <<n_loudness_range_target, Class("float")>>,
       <<n_true_peak, Class("float")>>,
       <<n_dual_mono, Class("bool")>>,
       <<n_audio_codec, Class("str")>>,
       <<n_audio_bitrate, Optional(Class("float"))>>,
       <<n_sample_rate, UnionType(<<Class("float"), Class("int"), NoneTypeHint>>)>>,
       <<n_audio_channels, Optional(Class("int"))>>,
       <<n_keep_original_audio, Class("bool")>>,
       <<n_pre_filter, Optional(Class("str"))>>,
       <<n_post_filter, Optional(Class("str"))>>,
       <<n_video_codec, Class("str")>>,
       <<n_video_disable, Class("bool")>>,
       <<n_subtitle_disable, Class("bool")>>,
       <<n_metadata_disable, Class("bool")>>,
       <<n_chapters_disable, Class("bool")>>,
       <<n_extra_input_options, Optional(ListOf(Class("str")))>>,
       <<n_output_format, Optional(Class("str"))>>,
       <<n_extension, Class("str")>>,
       <<n_dry_run, Class("bool")>>,
       <<n_debug, Class("bool")>>,
       <<n_progress, Class("bool")>>,
       <<n_return, NoneTypeHint>> >>
(***************************************************************************)
(* _build_param_map.  The map is an insertion-ordered dict: a sequence of  *)
(* entries, one per flag.                                                  *)
(***************************************************************************)
FlagIndex(pm, flag) ==
    IF \E i \in 1..Len(pm) : pm[i].flag = flag
    THEN CHOOSE i \in 1..Len(pm) : pm[i].flag = flag
    ELSE 0

MapPut(pm, flag, name, typ) ==
    LET e == [typ |-> typ, flag |-> flag, name |-> name]
        i == FlagIndex(pm, flag)
    IN  IF i = 0 THEN Append(pm, e) ELSE [pm EXCEPT ![i] = e]

LongFlag(param_name) == <<"-", "-">> \o StrReplace(param_name, "_", "-")

TypeOverride(param_name, scalar_type) ==
    IF \E i \in 1..Len(_TYPE_OVERRIDES) : _TYPE_OVERRIDES[i][1] = param_name
    THEN _TYPE_OVERRIDES[CHOOSE i \in 1..Len(_TYPE_OVERRIDES) :
                             _TYPE_OVERRIDES[i][1] = param_name][2]
    ELSE scalar_type

\* The iterations lo..hi of the loop over hints.items(), in order, on pm.  The
\* range is split in halves, and the first half is evaluated (as the element of
\* a singleton set) before the second starts: TLC evaluates an operator's
\* arguments on demand, and a chain of unevaluated maps nests as deep as the
\* loop is long.
RECURSIVE LongFlags(_, _, _, _)
LongFlags(hints, lo, hi, pm) ==
    IF lo > hi THEN pm
    ELSE IF lo < hi
    THEN CHOOSE r \in {LongFlags(hints, ((lo + hi) \div 2) + 1, hi, m) :
                          m \in {LongFlags(hints, lo, (lo + hi) \div 2, pm)}} : TRUE
    ELSE LET param_name == hints[lo][1]
             scalar_type == _extract_scalar_type(hints[lo][2])
         IN  IF param_name = n_return \/ scalar_type = NotScalar
             THEN pm
             ELSE MapPut(pm, LongFlag(param_name), param_name,
                         TypeOverride(param_name, scalar_type))

\* ShortFlags without the test of line 132: a short flag whose target has no
\* long flag is registered all the same, as a string parameter
RECURSIVE ShortFlagsUnchecked(_, _, _)
ShortFlagsUnchecked(lo, hi, pm) ==
    IF lo > hi THEN pm
    ELSE IF lo < hi
    THEN CHOOSE r \in {ShortFlagsUnchecked(((lo + hi) \div 2) + 1, hi, m) :
                          m \in {ShortFlagsUnchecked(lo, (lo + hi) \div 2, pm)}} : TRUE
    ELSE LET flag == _SHORT_FLAGS[lo][1]
             j == FlagIndex(pm, LongFlag(_SHORT_FLAGS[lo][2]))
         IN  IF j = 0 THEN MapPut(pm, flag, _SHORT_FLAGS[lo][2], "str")
             ELSE MapPut(pm, flag, pm[j].name, pm[j].typ)

\* the iterations lo..hi of the loop over _SHORT_FLAGS.items(), in order, on pm
RECURSIVE ShortFlags(_, _, _)
ShortFlags(lo, hi, pm) ==
    IF lo > hi THEN pm
    ELSE IF lo < hi
    THEN CHOOSE r \in {ShortFlags(((lo + hi) \div 2) + 1, hi, m) :
                          m \in {ShortFlags(lo, (lo + hi) \div 2, pm)}} : TRUE
    ELSE LET flag == _SHORT_FLAGS[lo][1]
             j == FlagIndex(pm, LongFlag(_SHORT_FLAGS[lo][2]))
         IN  IF j = 0 THEN pm
             ELSE MapPut(pm, flag, pm[j].name, pm[j].typ)

_build_param_map(hints) ==
    ShortFlags(1, Len(_SHORT_FLAGS), LongFlags(hints, 1, Len(hints), <<>>))

\* functools.cache: built once from the installed normalizer's signature
ParamMap == _build_param_map(FFmpegNormalizeHints)

(***************************************************************************)
(* Messages given to report_warning and to_screen: the format and the      *)
(* values formatted into it.                                               *)
(***************************************************************************)
NoPath == [name |-> "", dir |-> "", suffix |-> ""]

Message(fmt, a, b, path, err) ==
    [b |-> b, fmt |-> fmt, a |-> a, path |-> path, err |-> err]

InvalidKwargsValue(key, str_val) ==
    Message("invalid kwargs value: {key}={str_val}", key, str_val, NoPath, "")

InvalidArgValue(key, value) ==
    Message("invalid argument value: {key} {value}", key, value, NoPath, "")

MissingArgValue(key) ==
    Message("value missing for argument: {key}", key, <<>>, NoPath, "")

(***************************************************************************)
(* _kwargs_from_cli: self._kwargs is a sequence of <<key, str_val>> in     *)
(* insertion order.  The result carries the dict and the warnings.         *)
(***************************************************************************)
HasParam(pm, name) == \E i \in 1..Len(pm) : pm[i].name = name

\* type_map.setdefault(name, typ) over param_map.values(): the first entry's type
TypeMapGet(pm, name) ==
    LET i == CHOOSE i \in 1..Len(pm) :
                 /\ pm[i].name = name
                 /\ \A j \in 1..(i - 1) : pm[j].name # name
    IN  pm[i].typ

TruthyStrings == {<<"t", "r", "u", "e">>, <<"1">>, <<"y", "e", "s">>}

\* CliLoop without the conversion typ(str_val): the string is stored as given
RECURSIVE CliLoopUntyped(_, _, _)
CliLoopUntyped(kw, i, acc) ==
    IF i > Len(kw) THEN acc
    ELSE LET key == kw[i][1]
             str_val == kw[i][2]
             m == FlagIndex(ParamMap, key)
             known == m # 0 \/ HasParam(ParamMap, key)
             param_name == IF m # 0 THEN ParamMap[m].name ELSE key
         IN  IF ~known THEN CliLoopUntyped(kw, i + 1, acc)
             ELSE CliLoopUntyped(kw, i + 1,
                                 [acc EXCEPT !.kwargs = DictSet(@, param_name, PyStr(str_val))])

RECURSIVE CliLoop(_, _, _)
CliLoop(kw, i, acc) ==
    IF i > Len(kw) THEN acc
    ELSE LET key == kw[i][1]
             str_val == kw[i][2]
             m == FlagIndex(ParamMap, key)
             known == m # 0 \/ HasParam(ParamMap, key)
             param_name == IF m # 0 THEN ParamMap[m].name ELSE key
             typ == IF m # 0 THEN ParamMap[m].typ ELSE TypeMapGet(ParamMap, key)
             c == Coerce(typ, str_val)
         IN  IF ~known THEN CliLoop(kw, i + 1, acc)
             ELSE IF typ = "bool"
             THEN CliLoop(kw, i + 1,
                          [acc EXCEPT !.kwargs =
                              DictSet(@, param_name,
                                      PyBool(StrLower(str_val) \in TruthyStrings))])
             ELSE IF c.ok
             THEN CliLoop(kw, i + 1,
                          [acc EXCEPT !.kwargs = DictSet(@, param_name, c.val)])
             ELSE CliLoop(kw, i + 1,
                          [acc EXCEPT !.warnings =
                              Append(@, InvalidKwargsValue(key, str_val))])

_kwargs_from_cli(kw) ==
    IF kw = <<>> THEN [kwargs |-> EmptyDict, warnings |-> <<>>]
    ELSE CliLoop(kw, 1, [kwargs |-> EmptyDict, warnings |-> <<>>])

(***************************************************************************)
(* _kwargs_from_ppa: args is the token list of _configuration_args.        *)
(***************************************************************************)
\* PpaLoop reading the value without next(args_iter): the token that was the
\* value is examined as a flag in the next iteration
RECURSIVE PpaLoopRescansValue(_, _, _)
PpaLoopRescansValue(args, i, acc) ==
    IF i > Len(args) THEN acc
    ELSE LET key == args[i]
             m == FlagIndex(ParamMap, key)
             param_name == ParamMap[m].name
             param_type == ParamMap[m].typ
             value == args[i + 1]
             c == Coerce(param_type, value)
         IN  IF m = 0 THEN PpaLoopRescansValue(args, i + 1, acc)
             ELSE IF param_type = "bool"
             THEN PpaLoopRescansValue(args, i + 1,
                          [acc EXCEPT !.kwargs = DictSet(@, param_name, PyBool(TRUE))])
             ELSE IF i + 1 > Len(args)
             THEN [acc EXCEPT !.warnings = Append(@, MissingArgValue(key))]
             ELSE IF c.ok
             THEN PpaLoopRescansValue(args, i + 1,
                          [acc EXCEPT !.kwargs = DictSet(@, param_name, c.val)])
             ELSE PpaLoopRescansValue(args, i + 1,
                          [acc EXCEPT !.warnings =
                              Append(@, InvalidArgValue(key, value))])

\* PpaLoop taking every token for a flag with a value: an unknown token is
\* skipped together with the token after it
RECURSIVE PpaLoopSkipsPair(_, _, _)
PpaLoopSkipsPair(args, i, acc) ==
    IF i > Len(args) THEN acc
    ELSE LET key == args[i]
             m == FlagIndex(ParamMap, key)
             param_name == ParamMap[m].name
             param_type == ParamMap[m].typ
             value == args[i + 1]
             c == Coerce(param_type, value)
         IN  IF m = 0 THEN PpaLoopSkipsPair(args, i + 2, acc)
             ELSE IF param_type = "bool"
             THEN PpaLoopSkipsPair(args, i + 1,
                          [acc EXCEPT !.kwargs = DictSet(@, param_name, PyBool(TRUE))])
             ELSE IF i + 1 > Len(args)
             THEN [acc EXCEPT !.warnings = Append(@, MissingArgValue(key))]
             ELSE IF c.ok
             THEN PpaLoopSkipsPair(args, i + 2,
                          [acc EXCEPT !.kwargs = DictSet(@, param_name, c.val)])
             ELSE PpaLoopSkipsPair(args, i + 2,
                          [acc EXCEPT !.warnings =
                              Append(@, InvalidArgValue(key, value))])

\* PpaLoop without the StopIteration handler: a value-taking flag at the end
\* binds its parameter to None and nothing is reported
RECURSIVE PpaLoopDanglingBound(_, _, _)
PpaLoopDanglingBound(args, i, acc) ==
    IF i > Len(args) THEN acc
    ELSE LET key == args[i]
             m == FlagIndex(ParamMap, key)
             param_name == ParamMap[m].name
             param_type == ParamMap[m].typ
             value == args[i + 1]
             c == Coerce(param_type, value)
         IN  IF m = 0 THEN PpaLoopDanglingBound(args, i + 1, acc)
             ELSE IF param_type = "bool"
             THEN PpaLoopDanglingBound(args, i + 1,
                          [acc EXCEPT !.kwargs = DictSet(@, param_name, PyBool(TRUE))])
             ELSE IF i + 1 > Len(args)
             THEN [acc EXCEPT !.kwargs = DictSet(@, param_name, PyNone)]
             ELSE IF c.ok
             THEN PpaLoopDanglingBound(args, i + 2,
                          [acc EXCEPT !.kwargs = DictSet(@, param_name, c.val)])
             ELSE PpaLoopDanglingBound(args, i + 2,
                          [acc EXCEPT !.warnings =
                              Append(@, InvalidArgValue(key, value))])

RECURSIVE PpaLoop(_, _, _)
PpaLoop(args, i, acc) ==
    IF i > Len(args) THEN acc
    ELSE LET key == args[i]
             m == FlagIndex(ParamMap, key)
             param_name == ParamMap[m].name
             param_type == ParamMap[m].typ
             value == args[i + 1]
             c == Coerce(param_type, value)
         IN  IF m = 0 THEN PpaLoop(args, i + 1, acc)
             ELSE IF param_type = "bool"
             THEN PpaLoop(args, i + 1,
                          [acc EXCEPT !.kwargs = DictSet(@, param_name, PyBool(TRUE))])
             ELSE IF i + 1 > Len(args)
             THEN [acc EXCEPT !.warnings = Append(@, MissingArgValue(key))]
             ELSE IF c.ok
             THEN PpaLoop(args, i + 2,
                          [acc EXCEPT !.kwargs = DictSet(@, param_name, c.val)])
             ELSE PpaLoop(args, i + 2,
                          [acc EXCEPT !.warnings =
                              Append(@, InvalidArgValue(key, value))])

_kwargs_from_ppa(args) == PpaLoop(args, 1, [kwargs |-> EmptyDict, warnings |-> <<>>])

(***************************************************************************)
(* _build_normalize_kwargs: the kwargs channel, updated by the PPA result. *)
(***************************************************************************)
\* _build_normalize_kwargs taking the PPA result alone whenever there are PPA
\* arguments
BuildNormalizeKwargsPpaReplaces(kw, args) ==
    LET cli == _kwargs_from_cli(kw)
        ppa == _kwargs_from_ppa(args)
    IN  [kwargs |-> IF args # <<>> THEN ppa.kwargs ELSE cli.kwargs,
         warnings |-> cli.warnings \o ppa.warnings]

\* _build_normalize_kwargs with the update the other way round: the kwargs
\* channel overwrites the PPA result
BuildNormalizeKwargsCliWins(kw, args) ==
    LET cli == _kwargs_from_cli(kw)
        ppa == _kwargs_from_ppa(args)
    IN  [kwargs |-> DictUpdate(ppa.kwargs, cli.kwargs),
         warnings |-> cli.warnings \o ppa.warnings]

_build_normalize_kwargs(kw, args) ==
    LET cli == _kwargs_from_cli(kw)
        ppa == _kwargs_from_ppa(args)
    IN  [kwargs |-> DictUpdate(cli.kwargs, ppa.kwargs),
         warnings |-> cli.warnings \o ppa.warnings]

(***************************************************************************)
(* Default inference from the info record.  An info record carries its     *)
(* object identity, the set of keys it has, and the values of those keys.  *)
(***************************************************************************)
_CODEC_MAP ==
    << << <<"o", "p", "u", "s">>, <<"l", "i", "b", "o", "p", "u", "s">> >>,
       << <<"v", "o", "r", "b", "i", "s">>, <<"l", "i", "b", "v", "o", "r", "b", "i", "s">> >>,
       << <<"m", "p", "3">>, <<"l", "i", "b", "m", "p", "3", "l", "a", "m", "e">> >> >>

DefaultSampleRate == 48000

CodecMapGet(acodec) ==
    IF \E i \in 1..Len(_CODEC_MAP) : _CODEC_MAP[i][1] = acodec
    THEN _CODEC_MAP[CHOOSE i \in 1..Len(_CODEC_MAP) : _CODEC_MAP[i][1] = acodec][2]
    ELSE acodec

RECURSIVE Pow10(_)
Pow10(x) == IF x = 0 THEN 1 ELSE 10 * Pow10(x - 1)

\* IntPart rounding to the nearest integer, halves upwards
IntPartRounded(v) == (2 * v.n + Pow10(v.e)) \div (2 * Pow10(v.e))

\* int(v) of a non-negative float: the integer part
IntPart(v) == v.n \div Pow10(v.e)

RECURSIVE NatToStr(_)
NatToStr(i) ==
    IF i < 10 THEN <<Digits[i + 1]>>
    ELSE NatToStr(i \div 10) \o <<Digits[(i % 10) + 1]>>

InfoGet(info, key) == IF key \in info.keys THEN info[key] ELSE PyNone

_infer_defaults(info) ==
    LET ext == InfoGet(info, "ext")
        acodec == InfoGet(info, "acodec")
        asr == InfoGet(info, "asr")
        abr == InfoGet(info, "abr")
        d1 == IF ext # PyNone THEN DictSet(EmptyDict, n_extension, ext) ELSE EmptyDict
        d2 == IF acodec # PyNone /\ acodec # PyStr(<<"n", "o", "n", "e">>)
              THEN DictSet(d1, n_audio_codec, PyStr(CodecMapGet(acodec.s)))
              ELSE d1
        d3 == DictSet(d2, n_sample_rate,
                      IF asr # PyNone THEN asr ELSE PyInt(DefaultSampleRate))
    IN  IF abr # PyNone
        THEN DictSet(d3, n_audio_bitrate, PyStr(NatToStr(IntPart(abr)) \o <<"k">>))
        ELSE d3

(***************************************************************************)
(* Bounds and the finite universe of the model.                            *)
(***************************************************************************)
MaxRuns == 2

Absent == "absent"

Contents == {"original", "empty", "partial", "normalized"}

MediaA == [name |-> "a", dir |-> "/d", suffix |-> ".mp4"]

MediaB == [name |-> "b", dir |-> "/e", suffix |-> ".opus"]

MissingFile == [name |-> "nonexistent", dir |-> "/d", suffix |-> ".mp4"]

Targets == {MediaA, MediaB, MissingFile}

TmpNames == {"tmp1", "tmp2"}

TmpPaths == {[name |-> n, dir |-> p.dir, suffix |-> p.suffix] : p \in Targets, n \in TmpNames}

AllPaths == Targets \cup TmpPaths

NoExc == [cls |-> "", msg |-> ""]

Exceptions ==
    {[cls |-> "FFmpegNormalizeError", msg |-> "normalization failed"],
     [cls |-> "OSError", msg |-> "No space left on device"],
     [cls |-> "TypeError", msg |-> "unexpected"]}

OSErrors == {e \in Exceptions : e.cls = "OSError"}

\* what a call into the normalizer library can do: return, or raise
Outcomes == {NoExc} \cup Exceptions

NoInfo ==
    [acodec |-> PyNone, keys |-> {}, ext |-> PyNone, asr |-> PyNone, abr |-> PyNone,
     id |-> 0, filepath |-> NoPath]

Info(id, keys, filepath, ext, acodec, asr, abr) ==
    [acodec |-> acodec, keys |-> keys, ext |-> ext, asr |-> asr, abr |-> abr,
     id |-> id, filepath |-> filepath]

s_opus == <<"o", "p", "u", "s">>

s_mp4 == <<"m", "p", "4">>

s_aac == <<"a", "a", "c">>

InfoChoices ==
    {Info(1, {"filepath"}, MediaA, PyNone, PyNone, PyNone, PyNone),
     Info(2, {"filepath", "ext", "acodec", "asr", "abr"}, MediaB,
          PyStr(s_opus), PyStr(s_opus), PyInt(44100), PyFloat(1285, 1)),
     Info(3, {"filepath", "ext", "acodec"}, MissingFile,
          PyStr(s_mp4), PyStr(s_aac), PyNone, PyNone),
     Info(4, {"ext"}, NoPath, PyStr(s_mp4), PyNone, PyNone, PyNone),
     Info(5, {"filepath"}, NoPath, PyNone, PyNone, PyNone, PyNone)}

\* the constructor kwargs and the PPA argument list of the plugin instance
s_m14 == <<"-", "1", "4", ".", "0">>

s_m20 == <<"-", "2", "0", ".", "0">>

f_t == <<"-", "t">>

f_ca == <<"-", "c", ":", "a">>

ConfigChoices ==
    { <<<<>>, <<>>>>,
      << << <<n_target_level, s_m14>>, <<n_audio_codec, s_aac>> >>, <<>> >>,
      << << <<n_target_level, s_m14>> >>, <<f_t, s_m20>> >>,
      << <<>>, <<f_ca, s_aac, f_t>> >> }

(***************************************************************************)
(* State.                                                                  *)
(***************************************************************************)
VARIABLES
    _kwargs,        \* self._kwargs, a sequence of <<key, str_val>>
    ppa_args,       \* what self._configuration_args(self.pp_key()) returns
    fs,             \* the filesystem: path -> content, or Absent
    pc,             \* position in run / _normalize_file
    runs,           \* number of run() calls so far
    information,    \* run's argument
    filepath,       \* _normalize_file's argument
    tmp_path,       \* the temp file of this invocation, NoPath before mkstemp
    norm_kwargs,    \* the effective keyword arguments
    exc,            \* the exception in flight, or NoExc
    warnings,       \* report_warning calls of this invocation
    screen,         \* to_screen calls of this invocation
    calls,          \* calls made of this invocation, in order
    result,         \* how the last run() ended
    entry_fs,       \* the filesystem when the current run() was entered
    cli_result,     \* result of _kwargs_from_cli
    ppa_result,     \* result of _kwargs_from_ppa
    defaults,       \* result of _infer_defaults
    type_hints,     \* get_type_hints of the installed normalizer's constructor
    param_map,      \* result of _build_param_map
    annotation,     \* _extract_scalar_type's argument
    extracted_type  \* result of _extract_scalar_type

vars ==
    <<_kwargs, ppa_args, fs, pc, runs, information, filepath, tmp_path, norm_kwargs,
      exc, warnings, screen, calls, result, entry_fs, cli_result, ppa_result, defaults,
      type_hints, param_map, annotation, extracted_type>>

signature_vars == <<type_hints, param_map, annotation, extracted_type>>

config_vars == <<_kwargs, ppa_args, signature_vars>>

harness_vars == <<cli_result, ppa_result, defaults>>

Call(fn, path, to, kwargs, info, raised) ==
    [path |-> path, kwargs |-> kwargs, info |-> info, fn |-> fn, to |-> to,
     raised |-> raised]

FileMissing(p) == Message("file does not exist: {filepath}", <<>>, <<>>, p, "")

Started(p) == Message("normalization started: {path.name}", <<>>, <<>>,
                      [name |-> p.name, dir |-> "", suffix |-> p.suffix], "")

Completed(p) == Message("normalization completed: {path.name}", <<>>, <<>>,
                        [name |-> p.name, dir |-> "", suffix |-> p.suffix], "")

TempFileFailed == Message("failed to create the temporary file", <<>>, <<>>, NoPath, "")

NormalizeFailed(e) == Message("normalization failed: {e}", <<>>, <<>>, NoPath, e.msg)

NoResult == [info |-> NoInfo, exc |-> NoExc, kind |-> "none", side |-> <<>>]

NoParse == [kwargs |-> EmptyDict, warnings |-> <<>>]

InitialFs ==
    [p \in AllPaths |-> IF p \in {MediaA, MediaB} THEN "original" ELSE Absent]

Idle ==
    /\ fs = InitialFs
    /\ runs = 0
    /\ filepath = NoPath
    /\ tmp_path = NoPath
    /\ norm_kwargs = EmptyDict
    /\ exc = NoExc
    /\ warnings = <<>>
    /\ screen = <<>>
    /\ calls = <<>>
    /\ result = NoResult
    /\ entry_fs = InitialFs
    /\ cli_result = NoParse
    /\ ppa_result = NoParse
    /\ defaults = EmptyDict

\* the installed normalizer: its signature, and the map built from it
Installed ==
    /\ type_hints = FFmpegNormalizeHints
    /\ param_map = ParamMap
    /\ annotation = NoneTypeHint
    /\ extracted_type = NotScalar

Init ==
    /\ \E c \in ConfigChoices : _kwargs = c[1] /\ ppa_args = c[2]
    /\ pc = "idle"
    /\ information = NoInfo
    /\ Idle
    /\ Installed

(***************************************************************************)
(* run(information), lines 136-141.                                        *)
(***************************************************************************)
Run(info) ==
    /\ pc = "idle"
    /\ runs < MaxRuns
    /\ runs' = runs + 1
    /\ information' = info
    /\ entry_fs' = fs
    /\ warnings' = <<>>
    /\ screen' = <<>>
    /\ result' = NoResult
    /\ tmp_path' = NoPath
    /\ norm_kwargs' = EmptyDict
    /\ LET fp == IF "filepath" \in info.keys THEN info.filepath ELSE NoPath
       IN  IF fp # NoPath
           THEN /\ filepath' = fp
                /\ calls' = <<Call("_normalize_file", fp, NoPath, EmptyDict, NoInfo, NoExc)>>
                /\ pc' = "exists"
           ELSE /\ filepath' = NoPath
                /\ calls' = <<>>
                /\ pc' = "return"
    /\ UNCHANGED <<fs, exc, config_vars, harness_vars>>

RunReturn ==
    /\ pc = "return"
    /\ result' = [info |-> information, exc |-> NoExc, kind |-> "return", side |-> <<>>]
    /\ pc' = "idle"
    /\ UNCHANGED <<fs, runs, information, filepath, tmp_path, norm_kwargs, exc, warnings,
                   screen, calls, entry_fs, config_vars, harness_vars>>

RunRaise ==
    /\ pc = "raise"
    /\ result' = [info |-> NoInfo, exc |-> exc, kind |-> "raise", side |-> <<>>]
    /\ exc' = NoExc
    /\ pc' = "idle"
    /\ UNCHANGED <<fs, runs, information, filepath, tmp_path, norm_kwargs, warnings,
                   screen, calls, entry_fs, config_vars, harness_vars>>

(***************************************************************************)
(* _normalize_file(filepath), lines 219-251.                               *)
(***************************************************************************)
\* CheckExists without its return: the warning is given and the function goes on
CheckExistsGoesOn ==
    /\ pc = "exists"
    /\ IF fs[filepath] = Absent
       THEN /\ warnings' = Append(warnings, FileMissing(filepath))
            /\ UNCHANGED screen
       ELSE /\ screen' = Append(screen, Started(filepath))
            /\ UNCHANGED warnings
    /\ pc' = "mkstemp"
    /\ UNCHANGED <<fs, runs, information, filepath, tmp_path, norm_kwargs, exc, calls,
                   result, entry_fs, config_vars, harness_vars>>

\* lines 224-231
CheckExists ==
    /\ pc = "exists"
    /\ IF fs[filepath] = Absent
       THEN /\ warnings' = Append(warnings, FileMissing(filepath))
            /\ pc' = "return"
            /\ UNCHANGED screen
       ELSE /\ screen' = Append(screen, Started(filepath))
            /\ pc' = "mkstemp"
            /\ UNCHANGED warnings
    /\ UNCHANGED <<fs, runs, information, filepath, tmp_path, norm_kwargs, exc, calls,
                   result, entry_fs, config_vars, harness_vars>>

\* AllocTemp whose failure comes after the file was created: the warning is
\* given and the function returns, and the file stays
AllocTempLeavesFile ==
    /\ pc = "mkstemp"
    /\ \/ \E n \in TmpNames :
            LET t == [name |-> n, dir |-> filepath.dir, suffix |-> filepath.suffix]
            IN  /\ fs[t] = Absent
                /\ fs' = [fs EXCEPT ![t] = "empty"]
                /\ tmp_path' = t
                /\ calls' = Append(calls, Call("mkstemp", t, NoPath, EmptyDict, NoInfo, NoExc))
                /\ pc' = "kwargs"
                /\ UNCHANGED warnings
       \/ \E e \in OSErrors, n \in TmpNames :
            LET t == [name |-> n, dir |-> filepath.dir, suffix |-> filepath.suffix]
            IN  /\ fs[t] = Absent
                /\ fs' = [fs EXCEPT ![t] = "empty"]
                /\ calls' = Append(calls, Call("mkstemp", NoPath, NoPath, EmptyDict, NoInfo, e))
                /\ warnings' = Append(warnings, TempFileFailed)
                /\ pc' = "return"
                /\ UNCHANGED tmp_path
    /\ UNCHANGED <<runs, information, filepath, norm_kwargs, exc, screen, result,
                   entry_fs, config_vars, harness_vars>>

\* lines 233-238: tempfile.mkstemp(suffix=path.suffix, dir=path.parent); os.close(fd).
\* mkstemp creates the file or raises OSError and creates nothing; closing the
\* descriptor of the file just created is taken not to fail
AllocTemp ==
    /\ pc = "mkstemp"
    /\ \/ \E n \in TmpNames :
            LET t == [name |-> n, dir |-> filepath.dir, suffix |-> filepath.suffix]
            IN  /\ fs[t] = Absent
                /\ fs' = [fs EXCEPT ![t] = "empty"]
                /\ tmp_path' = t
                /\ calls' = Append(calls, Call("mkstemp", t, NoPath, EmptyDict, NoInfo, NoExc))
                /\ pc' = "kwargs"
                /\ UNCHANGED warnings
       \/ \E e \in OSErrors :
            /\ calls' = Append(calls, Call("mkstemp", NoPath, NoPath, EmptyDict, NoInfo, e))
            /\ warnings' = Append(warnings, TempFileFailed)
            /\ pc' = "return"
            /\ UNCHANGED <<fs, tmp_path>>
    /\ UNCHANGED <<runs, information, filepath, norm_kwargs, exc, screen, result,
                   entry_fs, config_vars, harness_vars>>

\* line 241
BuildKwargs ==
    /\ pc = "kwargs"
    /\ LET r == _build_normalize_kwargs(_kwargs, ppa_args)
       IN  /\ norm_kwargs' = r.kwargs
           /\ warnings' = warnings \o r.warnings
    /\ pc' = "construct"
    /\ UNCHANGED <<fs, runs, information, filepath, tmp_path, exc, screen, calls, result,
                   entry_fs, config_vars, harness_vars>>

\* a call in the try body: it is recorded, and either returns or raises
TryStep(at, call, next) ==
    /\ pc = at
    /\ \E o \in Outcomes :
        /\ calls' = Append(calls, [call EXCEPT !.raised = o])
        /\ exc' = o
        /\ pc' = IF o = NoExc THEN next ELSE "except"

\* line 242: norm = FFmpegNormalize(**norm_kwargs)
Construct ==
    /\ TryStep("construct",
               Call("FFmpegNormalize", NoPath, NoPath, norm_kwargs, NoInfo, NoExc),
               "add_media_file")
    /\ UNCHANGED <<fs, runs, information, filepath, tmp_path, norm_kwargs, warnings,
                   screen, result, entry_fs, config_vars, harness_vars>>

\* line 243: norm.add_media_file(str(path), tmp_path)
AddMediaFile ==
    /\ TryStep("add_media_file",
               Call("add_media_file", filepath, tmp_path, EmptyDict, NoInfo, NoExc),
               "run_normalization")
    /\ UNCHANGED <<fs, runs, information, filepath, tmp_path, norm_kwargs, warnings,
                   screen, result, entry_fs, config_vars, harness_vars>>

\* RunNormalization with its failure swallowed: the move follows in any case
RunNormalizationFailureIgnored ==
    /\ pc = "run_normalization"
    /\ \E o \in Outcomes :
        /\ calls' = Append(calls, Call("run_normalization", filepath, tmp_path, EmptyDict,
                                       NoInfo, o))
        /\ exc' = NoExc
        /\ pc' = "move"
        /\ IF o = NoExc
           THEN fs' = [fs EXCEPT ![tmp_path] = "normalized"]
           ELSE fs' = [fs EXCEPT ![tmp_path] = "partial"]
    /\ UNCHANGED <<runs, information, filepath, tmp_path, norm_kwargs, warnings,
                   screen, result, entry_fs, config_vars, harness_vars>>

\* line 244: norm.run_normalization() writes the output file; when it raises,
\* the output file is left as it was, partly written, or removed
RunNormalization ==
    /\ TryStep("run_normalization",
               Call("run_normalization", filepath, tmp_path, EmptyDict, NoInfo, NoExc),
               "move")
    /\ IF exc' = NoExc
       THEN fs' = [fs EXCEPT ![tmp_path] = "normalized"]
       ELSE \E c \in {fs[tmp_path], "partial", Absent} : fs' = [fs EXCEPT ![tmp_path] = c]
    /\ UNCHANGED <<runs, information, filepath, tmp_path, norm_kwargs, warnings,
                   screen, result, entry_fs, config_vars, harness_vars>>

\* line 245: shutil.move(tmp_path, str(path)): a rename within one directory,
\* which replaces the destination or fails and changes nothing
Move ==
    /\ pc = "move"
    /\ \E o \in {NoExc} \cup OSErrors :
        /\ calls' = Append(calls, Call("move", tmp_path, filepath, EmptyDict, NoInfo, o))
        /\ exc' = o
        /\ IF o = NoExc
           THEN /\ fs' = [fs EXCEPT ![filepath] = fs[tmp_path], ![tmp_path] = Absent]
                /\ pc' = "completed"
           ELSE /\ fs' = fs
                /\ pc' = "except"
    /\ UNCHANGED <<runs, information, filepath, tmp_path, norm_kwargs, warnings,
                   screen, result, entry_fs, config_vars, harness_vars>>

\* lines 246-247
NotifyCompleted ==
    /\ pc = "completed"
    /\ screen' = Append(screen, Completed(filepath))
    /\ pc' = "finally"
    /\ UNCHANGED <<fs, runs, information, filepath, tmp_path, norm_kwargs, exc, warnings,
                   calls, result, entry_fs, config_vars, harness_vars>>

\* Except catching FFmpegNormalizeError alone
ExceptDomainErrorOnly ==
    /\ pc = "except"
    /\ IF exc.cls \in {"FFmpegNormalizeError"}
       THEN /\ warnings' = Append(warnings, NormalizeFailed(exc))
            /\ exc' = NoExc
       ELSE UNCHANGED <<warnings, exc>>
    /\ pc' = "finally"
    /\ UNCHANGED <<fs, runs, information, filepath, tmp_path, norm_kwargs, screen, calls,
                   result, entry_fs, config_vars, harness_vars>>

\* Except catching every exception
ExceptEverything ==
    /\ pc = "except"
    /\ warnings' = Append(warnings, NormalizeFailed(exc))
    /\ exc' = NoExc
    /\ pc' = "finally"
    /\ UNCHANGED <<fs, runs, information, filepath, tmp_path, norm_kwargs, screen, calls,
                   result, entry_fs, config_vars, harness_vars>>

\* lines 248-249: except (FFmpegNormalizeError, OSError) as e
Except ==
    /\ pc = "except"
    /\ IF exc.cls \in {"FFmpegNormalizeError", "OSError"}
       THEN /\ warnings' = Append(warnings, NormalizeFailed(exc))
            /\ exc' = NoExc
       ELSE UNCHANGED <<warnings, exc>>
    /\ pc' = "finally"
    /\ UNCHANGED <<fs, runs, information, filepath, tmp_path, norm_kwargs, screen, calls,
                   result, entry_fs, config_vars, harness_vars>>

\* Path.unlink(missing_ok): removing a file that is not there raises
\* FileNotFoundError unless missing_ok
FileNotFound == [cls |-> "FileNotFoundError", msg |-> "No such file or directory"]

Unlink(f, p, missing_ok) ==
    IF f[p] = Absent /\ ~missing_ok
    THEN [fs |-> f, raised |-> FileNotFound]
    ELSE [fs |-> [f EXCEPT ![p] = Absent], raised |-> NoExc]

\* the cleanup placed after the try statement instead of in its finally clause
FinallyOnlyWithoutException ==
    /\ pc = "finally"
    /\ LET u == Unlink(fs, tmp_path, TRUE)
       IN  IF exc = NoExc
           THEN /\ fs' = u.fs
                /\ calls' = Append(calls, Call("unlink", tmp_path, NoPath, EmptyDict,
                                               NoInfo, u.raised))
           ELSE UNCHANGED <<fs, calls>>
    /\ pc' = IF exc = NoExc THEN "return" ELSE "raise"
    /\ UNCHANGED <<runs, information, filepath, tmp_path, norm_kwargs, exc, warnings,
                   screen, result, entry_fs, config_vars, harness_vars>>

\* lines 250-251: Path(tmp_path).unlink(missing_ok=True), then the function
\* returns, or the exception in flight goes on to the caller
Finally ==
    /\ pc = "finally"
    /\ LET u == Unlink(fs, tmp_path, TRUE)
       IN  /\ fs' = u.fs
           /\ calls' = Append(calls, Call("unlink", tmp_path, NoPath, EmptyDict, NoInfo,
                                          u.raised))
           /\ exc' = IF u.raised # NoExc THEN u.raised ELSE exc
    /\ pc' = IF exc' = NoExc THEN "return" ELSE "raise"
    /\ UNCHANGED <<runs, information, filepath, tmp_path, norm_kwargs, warnings,
                   screen, result, entry_fs, config_vars, harness_vars>>

Next ==
    \/ \E info \in InfoChoices : Run(info)
    \/ CheckExists
    \/ AllocTemp
    \/ BuildKwargs
    \/ Construct
    \/ AddMediaFile
    \/ RunNormalization
    \/ Move
    \/ NotifyCompleted
    \/ Except
    \/ Finally
    \/ RunReturn
    \/ RunRaise

Spec == Init /\ [][Next]_vars

(***************************************************************************)
(* The two channels applied to bounded inputs: every kwargs mapping and     *)
(* every token list of at most MaxInput strings together (a kwargs entry   *)
(* is two strings, its key and its value).                                 *)
(***************************************************************************)
MaxInput == 4

f_target_level == <<"-", "-", "t", "a", "r", "g", "e", "t", "-", "l", "e", "v", "e", "l">>

f_dual_mono == <<"-", "-", "d", "u", "a", "l", "-", "m", "o", "n", "o">>

f_ac == <<"-", "a", "c">>

n_unknown_param == <<"u", "n", "k", "n", "o", "w", "n", "_", "p", "a", "r", "a", "m">>

s_m20i == <<"-", "2", "0">>

s_True == <<"T", "r", "u", "e">>

s_false == <<"f", "a", "l", "s", "e">>

InputKeys ==
    {n_target_level, f_t, f_target_level, n_dual_mono, f_ac, f_ca, n_unknown_param}

InputValues == {s_m14, s_m20i, s_false}

InputTokens == {f_t, f_dual_mono, f_ac, f_ca} \cup InputValues

SeqsUpTo(S, n) == UNION {[1..k -> S] : k \in 0..n}

KwargsInputs ==
    {kw \in SeqsUpTo(InputKeys \X InputValues, MaxInput \div 2) :
        \A i, j \in 1..Len(kw) : kw[i][1] = kw[j][1] => i = j}

\* one entry for a boolean parameter, by name, long flag and short flag
BoolKeys == {n_dual_mono, f_dual_mono, <<"-", "d">>}

BoolValues ==
    {<<"t", "r", "u", "e">>, s_True, <<"1">>, <<"y", "e", "s">>, <<"Y", "E", "S">>,
     <<"0">>, <<"n", "o">>, <<>>, <<"o", "n">>, <<"t", "r", "u", "e", "1">>}

BoolKwargsInputs == {<< <<k, v>> >> : k \in BoolKeys, v \in BoolValues}

InitKwargs ==
    /\ \/ /\ _kwargs \in KwargsInputs
          /\ ppa_args \in SeqsUpTo(InputTokens, MaxInput - 2 * Len(_kwargs))
       \/ /\ _kwargs \in BoolKwargsInputs
          /\ ppa_args = <<>>
    /\ pc = "parse"
    /\ information = NoInfo
    /\ Idle
    /\ Installed

main_vars ==
    <<fs, runs, information, filepath, tmp_path, exc, screen, calls, result, entry_fs>>

KwargsFromCli ==
    /\ pc = "parse"
    /\ cli_result' = _kwargs_from_cli(_kwargs)
    /\ pc' = "parsed_cli"
    /\ UNCHANGED <<ppa_result, norm_kwargs, warnings, defaults, main_vars, config_vars>>

KwargsFromPpa ==
    /\ pc = "parsed_cli"
    /\ ppa_result' = _kwargs_from_ppa(ppa_args)
    /\ pc' = "parsed_ppa"
    /\ UNCHANGED <<cli_result, norm_kwargs, warnings, defaults, main_vars, config_vars>>

BuildNormalizeKwargs ==
    /\ pc = "parsed_ppa"
    /\ LET r == _build_normalize_kwargs(_kwargs, ppa_args)
       IN  /\ norm_kwargs' = r.kwargs
           /\ warnings' = r.warnings
    /\ pc' = "built"
    /\ UNCHANGED <<cli_result, ppa_result, defaults, main_vars, config_vars>>

NextKwargs == KwargsFromCli \/ KwargsFromPpa \/ BuildNormalizeKwargs

SpecKwargs == InitKwargs /\ [][NextKwargs]_vars

(***************************************************************************)
(* Default inference applied to bounded metadata.                          *)
(***************************************************************************)
s_vorbis == <<"v", "o", "r", "b", "i", "s">>

s_mp3 == <<"m", "p", "3">>

s_none == <<"n", "o", "n", "e">>

MetadataKeys == {"ext", "acodec", "asr", "abr"}

MetadataInputs ==
    {Info(1, keys, NoPath, ext, acodec, asr, abr) :
        keys \in SUBSET MetadataKeys,
        ext \in {PyStr(s_mp4), PyStr(s_opus)},
        acodec \in {PyStr(s_opus), PyStr(s_vorbis), PyStr(s_mp3), PyStr(s_aac), PyStr(s_none)},
        asr \in {PyInt(44100)},
        abr \in {PyFloat(128, 0), PyFloat(1285, 1), PyFloat(9, 1)}}

InitInfer ==
    /\ information \in MetadataInputs
    /\ _kwargs = <<>>
    /\ ppa_args = <<>>
    /\ pc = "infer"
    /\ Idle
    /\ Installed

InferDefaults ==
    /\ pc = "infer"
    /\ defaults' = _infer_defaults(information)
    /\ pc' = "inferred"
    /\ UNCHANGED <<cli_result, ppa_result, norm_kwargs, warnings, main_vars, config_vars>>

NextInfer == InferDefaults

SpecInfer == InitInfer /\ [][NextInfer]_vars

(***************************************************************************)
(* The map builder applied to bounded constructor signatures: at most      *)
(* MaxParams annotated entries with distinct names.                        *)
(***************************************************************************)
MaxParams == 2

SignatureNames ==
    {n_target_level, n_audio_bitrate, n_dual_mono, n_extra_input_options, n_return}

CollectionHints == {ListOf(Class("str")), Optional(ListOf(Class("str")))}

SignatureHints ==
    {Class("float"), Class("bool"), Optional(Class("float")), NoneTypeHint}
        \cup CollectionHints

SignatureInputs ==
    {h \in SeqsUpTo(SignatureNames \X SignatureHints, MaxParams) :
        \A i, j \in 1..Len(h) : h[i][1] = h[j][1] => i = j}

InitParamMap ==
    /\ type_hints \in SignatureInputs
    /\ param_map = <<>>
    /\ annotation = NoneTypeHint
    /\ extracted_type = NotScalar
    /\ _kwargs = <<>>
    /\ ppa_args = <<>>
    /\ pc = "build"
    /\ information = NoInfo
    /\ Idle

BuildParamMap ==
    /\ pc = "build"
    /\ param_map' = _build_param_map(type_hints)
    /\ pc' = "map_built"
    /\ UNCHANGED <<_kwargs, ppa_args, type_hints, annotation, extracted_type,
                   harness_vars, norm_kwargs, warnings, main_vars>>

NextParamMap == BuildParamMap

SpecParamMap == InitParamMap /\ [][NextParamMap]_vars

(***************************************************************************)
(* The scalar-type extractor applied to bounded hints: classes, literals,  *)
(* lists, other generics, and unions of at most MaxMembers distinct        *)
(* members in both spellings.                                              *)
(***************************************************************************)
MaxMembers == 2

HintInputs ==
    LET members == {Class("str"), Class("float"), Class("int"), Class("bool"),
                    NoneTypeHint, ListOf(Class("str")), LiteralOf(<<"str">>)}
        unions == {m \in SeqsUpTo(members, MaxMembers) :
                      /\ Len(m) >= 2
                      /\ \A i, j \in 1..Len(m) : m[i] = m[j] => i = j}
    IN  members
          \cup {Class("dict"), LiteralOf(<<"int", "int">>), LiteralOf(<<"NoneType">>),
                LiteralOf(<<>>),
                [origin |-> "dict", cls |-> "", lits |-> <<>>,
                 args |-> <<Class("str"), Class("int")>>]}
          \cup {UnionType(m) : m \in unions}
          \cup {TypingUnion(m) : m \in unions}

InitExtract ==
    /\ annotation \in HintInputs
    /\ extracted_type = NotScalar
    /\ type_hints = <<>>
    /\ param_map = <<>>
    /\ _kwargs = <<>>
    /\ ppa_args = <<>>
    /\ pc = "extract"
    /\ information = NoInfo
    /\ Idle

ExtractScalarType ==
    /\ pc = "extract"
    /\ extracted_type' = _extract_scalar_type(annotation)
    /\ pc' = "extracted"
    /\ UNCHANGED <<_kwargs, ppa_args, type_hints, param_map, annotation,
                   harness_vars, norm_kwargs, warnings, main_vars>>

NextExtract == ExtractScalarType

SpecExtract == InitExtract /\ [][NextExtract]_vars


(***************************************************************************)
(* Properties of the file normalizer (specification Spec).                 *)
(***************************************************************************)
TryCalls == {"FFmpegNormalize", "add_media_file", "run_normalization", "move"}

RecoverableClasses == {"FFmpegNormalizeError", "OSError"}

\* the calls of the try body that raised
RaisedAt == {i \in 1..Len(calls) : calls[i].fn \in TryCalls /\ calls[i].raised # NoExc}

RecoverableAt == {i \in RaisedAt : calls[i].raised.cls \in RecoverableClasses}

FatalAt == {i \in RaisedAt : calls[i].raised.cls \notin RecoverableClasses}

CallsOf(fn) == {i \in 1..Len(calls) : calls[i].fn = fn}

Succeeded(fn) == {i \in CallsOf(fn) : calls[i].raised = NoExc}

NormalizeFileEnded == pc \in {"return", "raise", "idle"} /\ filepath # NoPath

RunEnded == pc = "idle" /\ result.kind # "none"

\* C1: when a call of the try body (constructor, add_media_file,
\* run_normalization, move) raises FFmpegNormalizeError or OSError, the
\* original file has at the end the content it had at entry, a warning
\* carrying the exception's message has been given, and the call returns
\* normally.
C1_RecoverableFailureKeepsOriginal ==
    \A i \in RecoverableAt :
        /\ NormalizeFileEnded =>
              /\ fs[filepath] = entry_fs[filepath]
              /\ \E w \in 1..Len(warnings) : warnings[w] = NormalizeFailed(calls[i].raised)
              /\ pc # "raise"
              /\ exc = NoExc
        /\ RunEnded => result.kind = "return"

C1_Witness ==
    /\ RunEnded
    /\ result.kind = "return"
    /\ \E i \in RecoverableAt : calls[i].fn = "move"
    /\ \E i \in RecoverableAt : calls[i].raised.cls = "FFmpegNormalizeError"
                                 \/ calls[i].raised.cls = "OSError"
    /\ fs[filepath] = "original"

C3_OtherExceptionPropagatesAfterCleanup ==
    \A i \in FatalAt :
        /\ pc \in {"except", "finally", "raise"} => exc = calls[i].raised
        /\ pc # "return"
        /\ \A w \in 1..Len(warnings) : warnings[w].fmt # NormalizeFailed(NoExc).fmt
        /\ fs[filepath] = entry_fs[filepath]
        /\ CallsOf("move") = {}
        /\ pc \in {"raise", "idle"} =>
              /\ fs[tmp_path] = Absent
              /\ CallsOf("unlink") # {}
        /\ RunEnded => result.kind = "raise" /\ result.exc = calls[i].raised

C3_Witness ==
    /\ RunEnded
    /\ result.kind = "raise"
    /\ result.exc.cls = "TypeError"
    /\ \E i \in FatalAt : calls[i].fn = "FFmpegNormalize"
    /\ fs[filepath] = "original"
    /\ fs[tmp_path] = Absent

\* the order of the events: add_media_file(original -> temp), then
\* run_normalization returning, then the move of temp over the original, then
\* the completion notice
NormalizationOrder ==
    /\ \A m \in CallsOf("move") :
          /\ calls[m].path = tmp_path /\ calls[m].to = filepath
          /\ \E r \in Succeeded("run_normalization") :
                /\ r < m
                /\ \E a \in Succeeded("add_media_file") :
                      /\ a < r
                      /\ calls[a].path = filepath
                      /\ calls[a].to = tmp_path
    /\ Cardinality(CallsOf("move")) <= 1
    /\ (filepath # NoPath /\ fs[filepath] # entry_fs[filepath]) => Succeeded("move") # {}
    /\ (\E s \in 1..Len(screen) : screen[s] = Completed(filepath)) =>
          Succeeded("move") # {}
    /\ (NormalizeFileEnded \/ pc = "finally") =>
          (Succeeded("move") # {} <=>
              (\E s \in 1..Len(screen) : screen[s] = Completed(filepath)))

\* C4 as stated: the order above, and an invocation that moved the temp file
\* over the original has given no warning at all.
C4_AsStated ==
    /\ NormalizationOrder
    /\ Succeeded("move") # {} => warnings = <<>>

\* C4, amended: the order above, and an invocation that moved the temp file
\* over the original has given no failure warning; its only warnings are
\* those of parsing the configured arguments.
C4_ReplaceOnlyAfterSuccessfulRun ==
    /\ NormalizationOrder
    /\ Succeeded("move") # {} =>
          /\ warnings = _build_normalize_kwargs(_kwargs, ppa_args).warnings
          /\ \A w \in 1..Len(warnings) : warnings[w].fmt # NormalizeFailed(NoExc).fmt

C4_Witness ==
    /\ RunEnded
    /\ result.kind = "return"
    /\ Succeeded("move") # {}
    /\ fs[filepath] = "normalized"
    /\ entry_fs[filepath] = "original"
    /\ screen = <<Started(filepath), Completed(filepath)>>
    /\ Len(warnings) = 1

\* C5: for a path that does not exist, no temp file is created, the normalizer
\* is neither constructed nor run, exactly one warning naming the path is
\* given, no notice is given, and the call returns normally.
C5_MissingFileSkipped ==
    (filepath # NoPath /\ entry_fs[filepath] = Absent) =>
        /\ pc \in {"exists", "return", "idle"}
        /\ calls = <<Call("_normalize_file", filepath, NoPath, EmptyDict, NoInfo, NoExc)>>
        /\ tmp_path = NoPath
        /\ fs = entry_fs
        /\ screen = <<>>
        /\ exc = NoExc
        /\ pc \in {"return", "idle"} => warnings = <<FileMissing(filepath)>>
        /\ RunEnded => result.kind = "return"

C5_Witness ==
    /\ RunEnded
    /\ result.kind = "return"
    /\ filepath = MissingFile
    /\ warnings = <<FileMissing(MissingFile)>>
    /\ \A t \in TmpPaths : fs[t] = Absent

(***************************************************************************)
(* Properties of the two channels (specification SpecKwargs).              *)
(***************************************************************************)
\* C6: after _build_normalize_kwargs, a parameter that both channels gave
\* carries the PPA value, a parameter that only the kwargs channel gave carries
\* the kwargs value, nothing else is in the result, and two empty channels
\* give the empty mapping; kwargs target_level=-14.0 with tokens -t -20 gives
\* target_level = -20.
C6_PpaValueWinsOverKwargsValue ==
    pc = "built" =>
        /\ DOMAIN norm_kwargs = DOMAIN cli_result.kwargs \cup DOMAIN ppa_result.kwargs
        /\ \A p \in DOMAIN cli_result.kwargs \cap DOMAIN ppa_result.kwargs :
              norm_kwargs[p] = ppa_result.kwargs[p]
        /\ \A p \in DOMAIN cli_result.kwargs \ DOMAIN ppa_result.kwargs :
              norm_kwargs[p] = cli_result.kwargs[p]
        /\ (_kwargs = <<>> /\ ppa_args = <<>>) => norm_kwargs = EmptyDict
        /\ (_kwargs = << <<n_target_level, s_m14>> >> /\ ppa_args = <<f_t, s_m20i>>) =>
              norm_kwargs = DictSet(EmptyDict, n_target_level, PyFloat(-20, 0))

C6_Witness ==
    /\ pc = "built"
    /\ _kwargs = << <<n_target_level, s_m14>> >>
    /\ ppa_args = <<f_t, s_m20i>>
    /\ cli_result.kwargs[n_target_level] = PyFloat(-14, 0)
    /\ ppa_result.kwargs[n_target_level] = PyFloat(-20, 0)
    /\ norm_kwargs[n_target_level] = PyFloat(-20, 0)

(***************************************************************************)
(* Properties of the keyword arguments the normalizer is constructed with  *)
(* (specification Spec).                                                   *)
(***************************************************************************)
\* the inferred defaults, overwritten by the kwargs channel, overwritten by
\* the PPA channel
ThreeLayerMerge ==
    DictUpdate(DictUpdate(_infer_defaults(information), _kwargs_from_cli(_kwargs).kwargs),
               _kwargs_from_ppa(ppa_args).kwargs)

\* C7: the keyword arguments FFmpegNormalize is constructed with are the
\* three-layer merge of the inferred defaults, the kwargs channel and the PPA
\* channel; with no settings and no metadata they are {sample_rate: 48000}.
C7_ConstructorGetsThreeLayerMerge ==
    \A i \in CallsOf("FFmpegNormalize") :
        /\ calls[i].kwargs = ThreeLayerMerge
        /\ (_kwargs = <<>> /\ ppa_args = <<>> /\ information.keys = {"filepath"}) =>
              calls[i].kwargs = DictSet(EmptyDict, n_sample_rate, PyInt(48000))

(***************************************************************************)
(* Properties of default inference (specification SpecInfer).              *)
(***************************************************************************)
\* C8: _infer_defaults gives 'extension' exactly when ext is present, with its
\* value; 'audio_codec' exactly when acodec is present and is not "none", with
\* opus, vorbis and mp3 translated to libopus, libvorbis and libmp3lame and
\* any other name unchanged; 'sample_rate' always, asr or else 48000;
\* 'audio_bitrate' exactly when abr is present, as the integer part of abr
\* followed by "k"; and nothing else.  Empty metadata gives {sample_rate: 48000}.
C8_InferDefaultsResult ==
    pc = "inferred" =>
        LET has(k) == k \in information.keys
            codec == information.acodec.s
        IN  /\ DOMAIN defaults \subseteq
                  {n_extension, n_audio_codec, n_sample_rate, n_audio_bitrate}
            /\ n_extension \in DOMAIN defaults <=> has("ext")
            /\ has("ext") => defaults[n_extension] = information.ext
            /\ n_audio_codec \in DOMAIN defaults <=> (has("acodec") /\ codec # s_none)
            /\ n_audio_codec \in DOMAIN defaults =>
                  defaults[n_audio_codec] =
                      PyStr(CASE codec = s_opus -> <<"l", "i", "b", "o", "p", "u", "s">>
                              [] codec = s_vorbis ->
                                     <<"l", "i", "b", "v", "o", "r", "b", "i", "s">>
                              [] codec = s_mp3 ->
                                     <<"l", "i", "b", "m", "p", "3", "l", "a", "m", "e">>
                              [] OTHER -> codec)
            /\ n_sample_rate \in DOMAIN defaults
            /\ defaults[n_sample_rate] =
                  (IF has("asr") THEN information.asr ELSE PyInt(48000))
            /\ n_audio_bitrate \in DOMAIN defaults <=> has("abr")
            /\ has("abr") =>
                  defaults[n_audio_bitrate] =
                      PyStr(CASE information.abr = PyFloat(128, 0) -> <<"1", "2", "8", "k">>
                              [] information.abr = PyFloat(1285, 1) -> <<"1", "2", "8", "k">>
                              [] information.abr = PyFloat(9, 1) -> <<"0", "k">>
                              [] OTHER -> <<>>)
            /\ information.keys = {} =>
                  defaults = DictSet(EmptyDict, n_sample_rate, PyInt(48000))

C8_Witness ==
    /\ pc = "inferred"
    /\ information.keys = MetadataKeys
    /\ information.acodec = PyStr(s_opus)
    /\ information.abr = PyFloat(1285, 1)
    /\ defaults[n_audio_codec] = PyStr(<<"l", "i", "b", "o", "p", "u", "s">>)
    /\ defaults[n_audio_bitrate] = PyStr(<<"1", "2", "8", "k">>)
    /\ defaults[n_sample_rate] = PyInt(44100)

(***************************************************************************)
(* Properties of run (specification Spec).                                 *)
(***************************************************************************)
\* C9: run(info) calls _normalize_file exactly once, with the file path and
\* the info record, exactly when info has a non-empty file path, and returns
\* the empty list and the same info record, also after a recoverable failure.
C9_RunPassesPathAndInfo ==
    /\ \A i \in CallsOf("_normalize_file") :
          /\ calls[i].path = information.filepath
          /\ calls[i].info = information
    /\ Cardinality(CallsOf("_normalize_file")) <= 1
    /\ runs > 0 =>
          (CallsOf("_normalize_file") # {} <=>
              ("filepath" \in information.keys /\ information.filepath # NoPath))
    /\ (RunEnded /\ result.kind = "return") =>
          /\ result.side = <<>>
          /\ result.info = information

(***************************************************************************)
(* Equivalence of the two channels (specification SpecKwargs).             *)
(***************************************************************************)
\* one kwargs entry and one [flag, value] token pair that name the same
\* parameter and carry the same value string
SameFlagAndValue ==
    /\ Len(_kwargs) = 1
    /\ Len(ppa_args) = 2
    /\ FlagIndex(ParamMap, ppa_args[1]) # 0
    /\ _kwargs[1][2] = ppa_args[2]
    /\ LET entry == ParamMap[FlagIndex(ParamMap, ppa_args[1])]
           key == _kwargs[1][1]
       IN  \/ key = entry.name
           \/ /\ FlagIndex(ParamMap, key) # 0
              /\ ParamMap[FlagIndex(ParamMap, key)].name = entry.name

PairName == ParamMap[FlagIndex(ParamMap, ppa_args[1])].name

PairType == ParamMap[FlagIndex(ParamMap, ppa_args[1])].typ

BoolStrings == TruthyStrings \cup {<<"f", "a", "l", "s", "e">>, <<"0">>, <<"n", "o">>}

\* the value strings that are valid for a type
ValidValue(typ, v) ==
    IF typ = "bool" THEN StrLower(v) \in BoolStrings ELSE Coerce(typ, v).ok

\* the typed value of a valid string of the model's inputs
TypedValue(typ, v) ==
    CASE typ = "str" -> PyStr(v)
      [] typ = "float" /\ v = s_m14 -> PyFloat(-14, 0)
      [] typ = "float" /\ v = s_m20i -> PyFloat(-20, 0)
      [] typ = "int" /\ v = s_m20i -> PyInt(-20)
      [] OTHER -> PyNone

ChannelsAgree ==
    /\ DOMAIN cli_result.kwargs = {PairName}
    /\ cli_result.kwargs = ppa_result.kwargs

\* C10 as stated: for every flag of the parameter map and every valid value,
\* the token pair [flag, value] and the kwargs entry {key: value} bind the same
\* parameter name to the same typed value.
C10_AsStated ==
    (/\ pc \in {"parsed_ppa", "built"}
     /\ SameFlagAndValue
     /\ ValidValue(PairType, ppa_args[2])) => ChannelsAgree

\* C10, amended: for every flag of the parameter map that is not boolean and
\* every valid value, the token pair [flag, value] and the kwargs entry
\* {key: value} bind the same parameter name to the same typed value.
C10_ChannelsAgreeOnValueFlags ==
    (/\ pc \in {"parsed_ppa", "built"}
     /\ SameFlagAndValue
     /\ PairType # "bool"
     /\ ValidValue(PairType, ppa_args[2])) =>
        /\ ChannelsAgree
        /\ cli_result.kwargs[PairName] = TypedValue(PairType, ppa_args[2])
        /\ cli_result.warnings = <<>>
        /\ ppa_result.warnings = <<>>

C10_Witness ==
    /\ pc = "built"
    /\ _kwargs = << <<f_target_level, s_m14>> >>
    /\ ppa_args = <<f_t, s_m14>>
    /\ cli_result.kwargs = DictSet(EmptyDict, n_target_level, PyFloat(-14, 0))
    /\ ppa_result.kwargs = DictSet(EmptyDict, n_target_level, PyFloat(-14, 0))

(***************************************************************************)
(* Properties of the parameter map (specification SpecParamMap).           *)
(***************************************************************************)
HintOf(name) ==
    type_hints[CHOOSE i \in 1..Len(type_hints) : type_hints[i][1] = name][2]

InSignature(name) == \E i \in 1..Len(type_hints) : type_hints[i][1] = name

InMap(flag) == FlagIndex(param_map, flag) # 0

MapEntry(flag) == param_map[FlagIndex(param_map, flag)]

\* C11: in the map built from any signature, a short flag that is present
\* has the name and the type of its target's long flag, which is present too
\* (-b:a and --audio-bitrate are both of type str); a short flag is absent
\* exactly when that long flag is absent, which is exactly when the target
\* parameter is not in the signature or is collection-typed; and no flag is
\* registered for the return entry.
C11_ShortFlagsAliasLongFlags ==
    pc = "map_built" =>
        /\ \A i \in 1..Len(_SHORT_FLAGS) :
              LET short == _SHORT_FLAGS[i][1]
                  target == _SHORT_FLAGS[i][2]
                  long == <<"-", "-">> \o StrReplace(target, "_", "-")
              IN  /\ InMap(short) <=> InMap(long)
                  /\ InMap(short) =>
                        /\ MapEntry(short).name = target
                        /\ MapEntry(short).name = MapEntry(long).name
                        /\ MapEntry(short).typ = MapEntry(long).typ
                  /\ InMap(long) <=>
                        (InSignature(target) /\ HintOf(target) \notin CollectionHints)
        /\ InMap(<<"-", "b", ":", "a">>) =>
              /\ MapEntry(<<"-", "b", ":", "a">>).typ = "str"
              /\ MapEntry(<<"-", "-", "a", "u", "d", "i", "o", "-", "b", "i", "t", "r", "a", "t", "e">>).typ
                    = "str"
        /\ \A i \in 1..Len(param_map) :
              /\ param_map[i].name # n_return
              /\ param_map[i].flag # <<"-", "-", "r", "e", "t", "u", "r", "n">>
        /\ \A i, j \in 1..Len(param_map) :
              param_map[i].flag = param_map[j].flag => i = j

C11_Witness ==
    /\ pc = "map_built"
    /\ type_hints = << <<n_audio_bitrate, Optional(Class("float"))>>,
                       <<n_return, NoneTypeHint>> >>
    /\ param_map =
          << [typ |-> "str",
              flag |-> <<"-", "-", "a", "u", "d", "i", "o", "-", "b", "i", "t", "r", "a", "t", "e">>,
              name |-> n_audio_bitrate],
             [typ |-> "str", flag |-> <<"-", "b", ":", "a">>, name |-> n_audio_bitrate] >>

(***************************************************************************)
(* Properties of the argument-string parser (specification SpecKwargs).    *)
(***************************************************************************)
Recognized(tok) == FlagIndex(ParamMap, tok) # 0

BoolFlag(tok) == Recognized(tok) /\ ParamMap[FlagIndex(ParamMap, tok)].typ = "bool"

ValueFlag(tok) == Recognized(tok) /\ ParamMap[FlagIndex(ParamMap, tok)].typ # "bool"

ParamOf(tok) == ParamMap[FlagIndex(ParamMap, tok)].name

\* the positions of args, from i on, whose token is examined as a flag: the
\* others are the values of the value-taking flags before them
RECURSIVE FlagPositions(_, _)
FlagPositions(args, i) ==
    IF i > Len(args) THEN {}
    ELSE {i} \cup FlagPositions(args, IF ValueFlag(args[i]) THEN i + 2 ELSE i + 1)

Parsed == pc \in {"parsed_ppa", "built"}

LastToken == ppa_args[Len(ppa_args)]

EarlierTokens == SubSeq(ppa_args, 1, Len(ppa_args) - 1)

\* the result for a value-taking flag at the end: what the earlier tokens
\* give, and one more warning, which names the flag
DanglingFlagResult ==
    /\ ppa_result.kwargs = _kwargs_from_ppa(EarlierTokens).kwargs
    /\ ppa_result.warnings =
          _kwargs_from_ppa(EarlierTokens).warnings \o <<MissingArgValue(LastToken)>>

\* C12 as stated: whenever the last token is a recognized non-boolean flag,
\* the parser gives exactly one warning naming that flag, adds no entry for
\* it, and returns the entries of the earlier tokens.
C12_AsStated ==
    (Parsed /\ ppa_args # <<>> /\ ValueFlag(LastToken)) => DanglingFlagResult

\* C12, amended: whenever the last token is a recognized non-boolean flag and
\* is not itself the value of the value-taking flag before it, the parser
\* gives exactly one warning naming that flag, adds no entry for it, and
\* returns the entries of the earlier tokens.
C12_DanglingFlagWarnsOnce ==
    (/\ Parsed
     /\ ppa_args # <<>>
     /\ ValueFlag(LastToken)
     /\ Len(ppa_args) \in FlagPositions(ppa_args, 1)) => DanglingFlagResult

C12_Witness ==
    /\ pc = "parsed_ppa"
    /\ ppa_args = <<f_ca, s_m14, f_t>>
    /\ ppa_result.kwargs = DictSet(EmptyDict, n_audio_codec, PyStr(s_m14))
    /\ ppa_result.warnings = <<MissingArgValue(f_t)>>

(***************************************************************************)
(* Properties of the kwargs resolver (specification SpecKwargs).           *)
(***************************************************************************)
Resolved == pc \in {"parsed_cli", "parsed_ppa", "built"}

\* the parameter and the type a kwargs key resolves to: as a flag of the
\* parameter map, or else as a parameter name
KeyKnown(key) == Recognized(key) \/ \E i \in 1..Len(ParamMap) : ParamMap[i].name = key

KeyParam(key) == IF Recognized(key) THEN ParamOf(key) ELSE key

KeyType(key) ==
    IF Recognized(key) THEN ParamMap[FlagIndex(ParamMap, key)].typ
    ELSE ParamMap[CHOOSE i \in 1..Len(ParamMap) : ParamMap[i].name = key].typ

BoolKey(key) == KeyKnown(key) /\ KeyType(key) = "bool"

\* the last entry of _kwargs that resolves to the parameter of entry i
LastFor(i) ==
    \A j \in (i + 1)..Len(_kwargs) :
        KeyKnown(_kwargs[j][1]) => KeyParam(_kwargs[j][1]) # KeyParam(_kwargs[i][1])

\* the value strings of the inputs whose lowercase form is true, 1 or yes
TruthyInputs ==
    {<<"t", "r", "u", "e">>, <<"T", "r", "u", "e">>, <<"1">>, <<"y", "e", "s">>,
     <<"Y", "E", "S">>}

\* C13: a kwargs entry whose key resolves to a boolean parameter always
\* produces an entry, True if the lowercase form of the value is "true", "1"
\* or "yes" and False for every other string ("false", "0", "no", the empty
\* string, other words), and never a warning.
C13_BoolKwargsNeverFail ==
    Resolved =>
        \A i \in 1..Len(_kwargs) :
            BoolKey(_kwargs[i][1]) =>
                /\ KeyParam(_kwargs[i][1]) \in DOMAIN cli_result.kwargs
                /\ cli_result.kwargs[KeyParam(_kwargs[i][1])].t = "bool"
                /\ LastFor(i) =>
                      cli_result.kwargs[KeyParam(_kwargs[i][1])]
                          = PyBool(_kwargs[i][2] \in TruthyInputs)
                /\ \A w \in 1..Len(cli_result.warnings) :
                      cli_result.warnings[w].a # _kwargs[i][1]

C13_Witness ==
    /\ pc = "parsed_cli"
    /\ _kwargs = << <<f_dual_mono, <<"Y", "E", "S">> >> >>
    /\ cli_result.kwargs = DictSet(EmptyDict, n_dual_mono, PyBool(TRUE))
    /\ cli_result.warnings = <<>>

(***************************************************************************)
(* Properties of the scalar-type extractor (specification SpecExtract).    *)
(***************************************************************************)
IsUnion(h) == h.origin \in {"UnionType", "Union"}

\* the type of a hint that is no union: the class itself for the four
\* scalars, the type of the first value for a Literal, null for a list, and
\* str for anything else
TypeOfMember(h) ==
    CASE h \in {Class("str"), Class("float"), Class("int"), Class("bool")} -> h.cls
      [] h.origin = "Literal" /\ h.lits # <<>> /\ h.lits[1] \in ScalarTypes -> h.lits[1]
      [] h.origin = "list" -> NotScalar
      [] OTHER -> "str"

FirstPresent(h) ==
    h.args[CHOOSE i \in 1..Len(h.args) :
               /\ h.args[i] # NoneTypeHint
               /\ \A j \in 1..(i - 1) : h.args[j] = NoneTypeHint]

\* C14: _extract_scalar_type never raises; for a union in either spelling
\* (X | None, typing.Union[X, None], typing.Optional[X]) it gives the type of
\* the first member that is not None (float for float-or-None, str for
\* str-or-None, bool for bool-or-None, null for list-or-None); for any other
\* hint it gives one of the four scalars, null for a list, or str.
C14_ExtractorTotalOnEverySpelling ==
    pc = "extracted" =>
        /\ extracted_type \in ScalarTypes \cup {NotScalar}
        /\ IsUnion(annotation) => extracted_type = TypeOfMember(FirstPresent(annotation))
        /\ ~IsUnion(annotation) => extracted_type = TypeOfMember(annotation)

(***************************************************************************)
(* Unknown input in the two channels (specification SpecKwargs).           *)
(***************************************************************************)
RemoveAt(s, i) == SubSeq(s, 1, i - 1) \o SubSeq(s, i + 1, Len(s))

\* the positions of ppa_args whose token is examined as a flag and is none
UnknownTokens == {i \in FlagPositions(ppa_args, 1) : ~Recognized(ppa_args[i])}

UnknownKeys == {i \in 1..Len(_kwargs) : ~KeyKnown(_kwargs[i][1])}

\* C15: an unrecognized key of the kwargs and an unrecognized token of the
\* argument list add no entry and give no warning: the result is the one the
\* input without it gives; the token after an unrecognized token is examined
\* as a flag, and takes effect when it is one.
C15_UnknownInputIgnored ==
    /\ Resolved =>
          \A i \in UnknownKeys :
              /\ cli_result = _kwargs_from_cli(RemoveAt(_kwargs, i))
              /\ _kwargs[i][1] \notin DOMAIN cli_result.kwargs
              /\ \A w \in 1..Len(cli_result.warnings) :
                    cli_result.warnings[w].a # _kwargs[i][1]
    /\ Parsed =>
          \A i \in UnknownTokens :
              /\ ppa_result = _kwargs_from_ppa(RemoveAt(ppa_args, i))
              /\ \A w \in 1..Len(ppa_result.warnings) :
                    ppa_result.warnings[w].a # ppa_args[i]
              /\ i < Len(ppa_args) =>
                    /\ i + 1 \in FlagPositions(ppa_args, 1)
                    /\ BoolFlag(ppa_args[i + 1]) =>
                          /\ ParamOf(ppa_args[i + 1]) \in DOMAIN ppa_result.kwargs
                          /\ ppa_result.kwargs[ParamOf(ppa_args[i + 1])] = PyBool(TRUE)
                    /\ (ValueFlag(ppa_args[i + 1]) /\ i + 1 = Len(ppa_args)) =>
                          ppa_result.warnings[Len(ppa_result.warnings)]
                              = MissingArgValue(ppa_args[i + 1])
                    /\ (ValueFlag(ppa_args[i + 1]) /\ i + 2 = Len(ppa_args)
                           /\ ppa_args[i + 2] = s_m20i) =>
                          ppa_result.kwargs[ParamOf(ppa_args[i + 1])]
                              = TypedValue(KeyType(ppa_args[i + 1]), s_m20i)

C15_Witness ==
    /\ pc = "parsed_ppa"
    /\ _kwargs = << <<n_unknown_param, s_m14>> >>
    /\ ppa_args = <<s_m14, f_dual_mono>>
    /\ cli_result = NoParse
    /\ ppa_result.kwargs = DictSet(EmptyDict, n_dual_mono, PyBool(TRUE))
    /\ ppa_result.warnings = <<>>

(***************************************************************************)
(* Values that cannot be coerced (specification SpecKwargs).               *)
(***************************************************************************)
\* the strings of the inputs that are no float, and no int
Malformed(typ, v) ==
    \/ typ = "float" /\ v \notin {s_m14, s_m20i}
    \/ typ = "int" /\ v # s_m20i

MalformedKeys ==
    {i \in 1..Len(_kwargs) :
        /\ KeyKnown(_kwargs[i][1])
        /\ Malformed(KeyType(_kwargs[i][1]), _kwargs[i][2])}

MalformedTokens ==
    {i \in FlagPositions(ppa_args, 1) :
        /\ i < Len(ppa_args)
        /\ ValueFlag(ppa_args[i])
        /\ Malformed(KeyType(ppa_args[i]), ppa_args[i + 1])}

Occurrences(s, x) == Cardinality({w \in 1..Len(s) : s[w] = x})

\* C16: a value that cannot be coerced to its parameter's type gives, in
\* either channel, one warning naming the key or flag and the raw value, and
\* no entry; the other entries of the kwargs, and the tokens after the failed
\* value, are processed as they are without it.
C16_MalformedValueDropsOneEntry ==
    /\ Resolved =>
          \A i \in MalformedKeys :
              LET rest == _kwargs_from_cli(RemoveAt(_kwargs, i))
                  warning == InvalidKwargsValue(_kwargs[i][1], _kwargs[i][2])
              IN  /\ cli_result.kwargs = rest.kwargs
                  /\ Len(cli_result.warnings) = Len(rest.warnings) + 1
                  /\ Occurrences(cli_result.warnings, warning) = 1
    /\ Parsed =>
          \A i \in MalformedTokens :
              LET rest == _kwargs_from_ppa(RemoveAt(RemoveAt(ppa_args, i), i))
                  warning == InvalidArgValue(ppa_args[i], ppa_args[i + 1])
              IN  /\ ppa_result.kwargs = rest.kwargs
                  /\ Len(ppa_result.warnings) = Len(rest.warnings) + 1
                  /\ Occurrences(ppa_result.warnings, warning)
                        = Occurrences(rest.warnings, warning) + 1

C16_Witness ==
    /\ pc = "parsed_ppa"
    /\ ppa_args = <<f_t, s_false, f_dual_mono>>
    /\ ppa_result.kwargs = DictSet(EmptyDict, n_dual_mono, PyBool(TRUE))
    /\ ppa_result.warnings = <<InvalidArgValue(f_t, s_false)>>

(***************************************************************************)
(* Temp-file allocation (specification Spec).                              *)
(***************************************************************************)
NormalizerCalls ==
    CallsOf("FFmpegNormalize") \cup CallsOf("add_media_file")
        \cup CallsOf("run_normalization")

MkstempFailed == \E m \in CallsOf("mkstemp") : calls[m].raised # NoExc

Producing ==
    {i \in FlagPositions(ppa_args, 1) :
        \/ BoolFlag(ppa_args[i])
        \/ /\ ValueFlag(ppa_args[i])
           /\ i < Len(ppa_args)
           /\ ~Malformed(KeyType(ppa_args[i]), ppa_args[i + 1])}

ValueAt(i) ==
    IF BoolFlag(ppa_args[i]) THEN PyBool(TRUE)
    ELSE TypedValue(KeyType(ppa_args[i]), ppa_args[i + 1])

\* C18: scanning from the first token, a boolean flag records True and the
\* next token is scanned as a flag; a value-taking flag takes the very next
\* token as its value, whatever it is (a flag string too, which then is no
\* flag), and scanning resumes after the value.  The entries are those of
\* the flags so scanned, and a parameter given several times has the value
\* of the last occurrence that produced one.
C18_ValueFlagConsumesNextToken ==
    Parsed =>
        LET scanned == FlagPositions(ppa_args, 1)
            producing == Producing
            last == {i \in producing :
                        \A j \in producing :
                            j > i => ParamOf(ppa_args[j]) # ParamOf(ppa_args[i])}
        IN  /\ DOMAIN ppa_result.kwargs = {ParamOf(ppa_args[i]) : i \in producing}
            /\ \A i \in last : ppa_result.kwargs[ParamOf(ppa_args[i])] = ValueAt(i)
            /\ \A i \in last :
                  ppa_args[i] = f_ca =>
                      ppa_result.kwargs[n_audio_codec] = PyStr(ppa_args[i + 1])
            /\ Len(ppa_result.warnings)
                  = Cardinality({i \in scanned \ producing : Recognized(ppa_args[i])})

C18_Witness ==
    /\ pc = "parsed_ppa"
    /\ ppa_args = <<f_ca, f_t, f_t, s_m20i>>
    /\ ppa_result.kwargs =
          DictSet(DictSet(EmptyDict, n_audio_codec, PyStr(f_t)),
                  n_target_level, PyFloat(-20, 0))
    /\ ppa_result.warnings = <<>>

(***************************************************************************)
(* The effective keyword arguments when the argument list names a          *)
(* parameter without giving it a value (specification SpecKwargs).         *)
(***************************************************************************)
\* the parameters that a flag of ppa_args names
NamedByPpa ==
    {ParamOf(ppa_args[i]) : i \in {j \in FlagPositions(ppa_args, 1) : Recognized(ppa_args[j])}}

GivenByPpa == {ParamOf(ppa_args[i]) : i \in Producing}

\* the entries of _kwargs that give a value to parameter p
GivingKeys(p) ==
    {i \in 1..Len(_kwargs) :
        /\ KeyKnown(_kwargs[i][1])
        /\ KeyParam(_kwargs[i][1]) = p
        /\ (KeyType(_kwargs[i][1]) = "bool"
               \/ ~Malformed(KeyType(_kwargs[i][1]), _kwargs[i][2]))}

KwargsValue(i) ==
    IF KeyType(_kwargs[i][1]) = "bool" THEN PyBool(_kwargs[i][2] \in TruthyInputs)
    ELSE TypedValue(KeyType(_kwargs[i][1]), _kwargs[i][2])

\* C19: a parameter that the argument list names without producing a value
\* for it (a flag at the end without value, or a value that does not coerce)
\* keeps the value the kwargs gave it, and is absent when the kwargs gave
\* none; and no parameter carries a value of another type than its own.
C19_PpaOverridesOnlyWithValue ==
    pc = "built" =>
        /\ \A p \in NamedByPpa \ GivenByPpa :
              /\ p \in DOMAIN norm_kwargs <=> GivingKeys(p) # {}
              /\ \A i \in GivingKeys(p) :
                    (\A j \in GivingKeys(p) : j <= i) => norm_kwargs[p] = KwargsValue(i)
        /\ \A p \in GivenByPpa :
              /\ p \in DOMAIN norm_kwargs
              /\ norm_kwargs[p] = ppa_result.kwargs[p]
        /\ \A p \in DOMAIN norm_kwargs : norm_kwargs[p].t = KeyType(p)

C19_Witness ==
    /\ pc = "built"
    /\ _kwargs = << <<n_target_level, s_m14>> >>
    /\ ppa_args = <<f_t, s_false>>
    /\ ppa_result.kwargs = EmptyDict
    /\ norm_kwargs = DictSet(EmptyDict, n_target_level, PyFloat(-14, 0))
    /\ warnings = <<InvalidArgValue(f_t, s_false)>>

====
